---- MODULE Spec2Model ----
(***************************************************************************)
(* Model of lstm_baseline.py: the grid-search driver (__main__), the       *)
(* training loop (train) and the batch generator (dataset_iterator).       *)
(*                                                                         *)
(* Numbers are scaled so that everything is an integer:                    *)
(*   - a learning rate is stored in thousandths (0.01 is 10);              *)
(*   - an accuracy correct / n_samples is stored as its numerator correct  *)
(*     (n_samples is the size of the evaluated dataset, the same at every  *)
(*     evaluation of a program run);                                       *)
(*   - a mean of the accuracy window is stored as the sum of the window's  *)
(*     numerators, i.e. WindowLen * n_samples times the mean.  max_perf,   *)
(*     perf and max_running_mean are in that unit.                         *)
(* What the network predicts is not modelled: the number of correct        *)
(* predictions of an evaluation is chosen nondeterministically.            *)
(***************************************************************************)
EXTENDS Integers, Sequences, FiniteSets, TLC

\* ---------------------------------------------------------------- bounds
\* number of examples of the validation split / of the train split
ValSize == 40
TrainSize == 50
\* args.num_epochs of the grid-search runs (the script's default is 150)
GridEpochs == 3
\* args.num_epochs of the single train call explored in depth
TrainEpochs == 16
\* number of accuracy levels besides 0 an evaluation may return: in the grid
\* search with the default flags, in the grid search over all flag values, and
\* in the single train call
GridLevels == 2
FlagLevels == 1
TrainLevels == 2
\* dataset_iterator: largest dataset and largest batch_size
MaxN == 4
MaxBatch == 3

\* ------------------------------------------------------ program constants
EvalPeriod == 5
WindowLen == 5

lrs == [i \in 1..3 |-> 10 ^ (3 - i)]
batch_sizes == <<32, 64>>
hidden_sizes == <<12, 24, 48, 64>>

Kinds == {"absent", "dir", "file"}
NoError == [exc |-> "none", path |-> "", found |-> ""]
NoObject == [id |-> 0]

VARIABLES
  pc,               \* position of the script
  args,             \* the argparse namespace
  fs,               \* kind of logs/<exp_name>, checkpoints/<exp_name>, .../model.pt
  error,            \* the exception that ended the script, if any
  alloc,            \* number of objects constructed so far (object identity)
  train_dataset, val_dataset, train_loader, val_loader,
  model, optimizer,
  li, bi, hi,       \* positions of the three nested for loops (1-based)
  steps, total_steps, max_perf, best_args,
  calls,            \* history: the [lr, batch_size, hidden_size] of each train call
  first_at,         \* history: <<value, run>>, the first run returning each value > 0
  epoch, ix, global_step, accuracies, max_running_mean,
  train_writer,     \* scalars written by this call's SummaryWriter
  acc_hist,         \* history: the accuracies of this call's evaluations, in order
  dataset, batch_size, shuffle, count_sampled, n, it_pc,
  yielded           \* history: the batches dataset_iterator has yielded, in order

mainVars == <<pc, args, fs, error, alloc, train_dataset, val_dataset, train_loader,
              val_loader, model, optimizer, li, bi, hi, steps, total_steps,
              max_perf, best_args, calls, first_at>>
trainVars == <<epoch, ix, global_step, accuracies, max_running_mean, train_writer,
               acc_hist>>
iterVars == <<dataset, batch_size, shuffle, count_sampled, n, it_pc, yielded>>
vars == <<mainVars, trainVars, iterVars>>

\* ---------------------------------------------------------------- helpers
RECURSIVE Sum(_)
Sum(s) == IF s = <<>> THEN 0 ELSE Head(s) + Sum(Tail(s))

Zeros == [i \in 1..WindowLen |-> 0]

\* len(DataLoader): drop_last is False, so the last batch may be short
LoaderLen(loader) ==
  (loader.dataset.size + loader.batch_size - 1) \div loader.batch_size

DataLoader(id, ds, bsz) == [id |-> id, dataset |-> ds, batch_size |-> bsz]

SeqDataset(id, split) ==
  [id |-> id, split |-> split, size |-> IF split = "val" THEN ValSize ELSE TrainSize]

\* the numbers of correct predictions an evaluation over m samples may return
Choices(levels, m) == {(k * m) \div levels : k \in 0..levels}

\* ------------------------------------------------------------------- Init
\* the namespace parse_args returns; lr, batch_size and hidden_size either at
\* their defaults or given on the command line with values outside the grid
ParsedArgs(cli, dbg, tot, ne) ==
  [dataset |-> "twitter15",
   lr |-> IF cli THEN 5 ELSE 10,
   num_epochs |-> ne,
   num_lstm_layers |-> 2,
   num_linear_layers |-> 1,
   hidden_size |-> IF cli THEN 100 ELSE 12,
   dropout |-> 5,
   batch_size |-> IF cli THEN 16 ELSE 32,
   debug |-> dbg,
   test_on_train |-> tot,
   verbose |-> 0,
   cap_len |-> 40,
   exp_name |-> "LSTM_default"]

\* the values of (--debug, --test_on_train) explored; both are integers, both
\* default to 1, and the script tests them for truth
FlagPairs == {<<0, 0>>, <<0, 1>>, <<1, 0>>, <<1, 1>>, <<2, -1>>}

\* lines 29-32: both flags at their default
DefaultFlags == {<<1, 1>>}

\* the directory states the script may find: model.pt can only exist inside an
\* existing checkpoint directory
FsStates ==
  {f \in [log_dir : Kinds, checkpoint_dir : Kinds, checkpoint_path : {"absent", "file"}] :
     f.checkpoint_path = "file" => f.checkpoint_dir = "dir"}

IterIdle ==
  /\ dataset = <<>>
  /\ batch_size = 1
  /\ shuffle = FALSE
  /\ count_sampled = 0
  /\ n = 0
  /\ it_pc = "idle"
  /\ yielded = <<>>

MainState(p, epochs, flags) ==
  /\ pc = p
  /\ \E cli \in BOOLEAN, fl \in flags :
       args = ParsedArgs(cli, fl[1], fl[2], epochs)
  /\ fs \in FsStates
  /\ error = NoError
  /\ alloc = 0
  /\ train_dataset = NoObject
  /\ val_dataset = NoObject
  /\ train_loader = NoObject
  /\ val_loader = NoObject
  /\ model = NoObject
  /\ optimizer = NoObject
  /\ li = 1 /\ bi = 1 /\ hi = 1
  /\ steps = 0
  /\ total_steps = 0
  /\ max_perf = 0
  /\ best_args = <<>>
  /\ calls = <<>>
  /\ first_at = {}
  /\ epoch = 0
  /\ ix = 0
  /\ global_step = 0
  /\ accuracies = <<>>
  /\ max_running_mean = 0
  /\ train_writer = [loss |-> 0, Accuracy |-> <<>>]
  /\ acc_hist = <<>>

\* the script started with --debug and --test_on_train at their defaults
Init ==
  /\ MainState("start", GridEpochs, DefaultFlags)
  /\ IterIdle

\* ------------------------------------------------------------- __main__
\* a plausible slip: the test on --debug inverted
TrainSplitInverted(a) == IF a.debug # 0 THEN "train" ELSE "val"

\* lines 203-206: the split the model is trained on
TrainSplit(a) == IF a.debug # 0 THEN "val" ELSE "train"

\* lines 199-224: choose the splits, build datasets and loaders, initialise
\* the grid-search variables
LoadData ==
  /\ pc = "start"
  /\ LET tds == SeqDataset(alloc + 1, TrainSplit(args))
         vds == SeqDataset(alloc + 2, "val")
         tl  == DataLoader(alloc + 3, tds, args.batch_size)
     IN /\ train_dataset' = tds
        /\ val_dataset' = vds
        /\ train_loader' = tl
        /\ IF args.test_on_train = 0
             THEN /\ val_loader' = DataLoader(alloc + 4, vds, args.batch_size)
                  /\ alloc' = alloc + 4
             ELSE /\ val_loader' = tl
                  /\ alloc' = alloc + 3
  /\ steps' = 0
  /\ total_steps' = Len(lrs) * Len(batch_sizes) * Len(hidden_sizes)
  /\ max_perf' = 0
  /\ best_args' = <<>>
  /\ li' = 1 /\ bi' = 1 /\ hi' = 1
  /\ pc' = "loop"
  /\ UNCHANGED <<args, fs, error, model, optimizer, calls, first_at>>
  /\ UNCHANGED <<trainVars, iterVars>>

\* a plausible slip: the assignment args.lr = lr left out
OverwriteArgsNoLr(a, lr, bsz, hsz) ==
  [a EXCEPT !.batch_size = bsz, !.hidden_size = hsz]

\* lines 231-233: the three assignments to args of one grid run
OverwriteArgs(a, lr, bsz, hsz) ==
  [a EXCEPT !.batch_size = bsz, !.lr = lr, !.hidden_size = hsz]

\* lines 238-243: LSTMClassifier(...); updates counts the optimizer steps
\* applied to its parameters
LSTMClassifier(id, a) ==
  [id |-> id, h_size |-> a.hidden_size, n_lstm_layers |-> a.num_lstm_layers,
   n_linear_layers_hidden |-> a.num_linear_layers - 1, dropout |-> a.dropout,
   seq_size |-> a.cap_len, updates |-> 0]

\* line 245: torch.optim.Adam(model.parameters(), lr=args.lr)
Adam(id, m, lr) == [id |-> id, params |-> m.id, lr |-> lr, t |-> 0]

\* lines 227-246: one iteration of the innermost loop up to the call of train
GridRun ==
  /\ pc = "loop"
  /\ li <= Len(lrs)
  /\ LET a  == OverwriteArgs(args, lrs[li], batch_sizes[bi], hidden_sizes[hi])
         tl == DataLoader(alloc + 1, train_dataset, a.batch_size)
         vl == IF a.test_on_train = 0
                 THEN DataLoader(alloc + 2, val_dataset, a.batch_size)
                 ELSE tl
         m  == LSTMClassifier(alloc + 3, a)
     IN /\ args' = a
        /\ train_loader' = tl
        /\ val_loader' = vl
        /\ model' = m
        /\ optimizer' = Adam(alloc + 4, m, a.lr)
        /\ alloc' = alloc + 4
        /\ calls' = Append(calls, <<a.lr, a.batch_size, a.hidden_size>>)
  /\ pc' = "train_setup"
  /\ UNCHANGED <<fs, error, train_dataset, val_dataset, li, bi, hi, steps,
                 total_steps, max_perf, best_args, first_at>>
  /\ UNCHANGED <<trainVars, iterVars>>

\* ------------------------------------------------------------------ train
\* os.makedirs(path) with exist_ok left False: creates the directory (and its
\* parents) when nothing is at the path and raises FileExistsError otherwise
os_makedirs(f, path) ==
  IF f[path] = "absent"
    THEN [fs |-> [f EXCEPT ![path] = "dir"], error |-> NoError]
    ELSE [fs |-> f,
          error |-> [exc |-> "FileExistsError", path |-> path, found |-> f[path]]]

\* a plausible slip: makedirs(log_dir) without the isdir test
SetupDirsUnguarded(f) ==
  LET r1 == os_makedirs(f, "log_dir")
  IN IF r1.error # NoError THEN r1
     ELSE IF r1.fs.checkpoint_path # "file" /\ r1.fs.checkpoint_dir # "dir"
            THEN os_makedirs(r1.fs, "checkpoint_dir")
            ELSE r1

\* lines 116-126: the log directory, then the checkpoint directory
SetupDirs(f) ==
  LET r1 == IF f.log_dir # "dir"
              THEN os_makedirs(f, "log_dir")
              ELSE [fs |-> f, error |-> NoError]
  IN IF r1.error # NoError THEN r1
     ELSE IF r1.fs.checkpoint_path # "file" /\ r1.fs.checkpoint_dir # "dir"
            THEN os_makedirs(r1.fs, "checkpoint_dir")
            ELSE r1

\* lines 116-132: everything train does before its first epoch
TrainSetup ==
  /\ pc = "train_setup"
  /\ LET r == SetupDirs(fs)
     IN /\ fs' = r.fs
        /\ error' = r.error
        /\ IF r.error # NoError
             THEN /\ pc' = "crashed"
                  /\ UNCHANGED trainVars
             ELSE /\ pc' = "train_loop"
                  /\ epoch' = 0
                  /\ ix' = 0
                  /\ global_step' = 0
                  /\ accuracies' = Zeros
                  /\ max_running_mean' = 0
                  /\ train_writer' = [loss |-> 0, Accuracy |-> <<>>]
                  /\ acc_hist' = <<>>
  /\ UNCHANGED <<args, alloc, train_dataset, val_dataset, train_loader, val_loader,
                 model, optimizer, li, bi, hi, steps, total_steps, max_perf,
                 best_args, calls, first_at>>
  /\ UNCHANGED iterVars

\* line 162: the test that triggers an evaluation
ShouldEval(g) == g % EvalPeriod = 0

\* line 173: np.concatenate([accuracies[1:], np.array([acc])])
PushAcc(window, acc) == Append(Tail(window), acc)

\* accuracies.mean(), in units of 1 / (WindowLen * n_samples)
WindowMean(window) == Sum(window)

\* a plausible slip: the latest mean kept instead of the largest
UpdateMaxLatest(m, window) == WindowMean(window)

\* lines 176-177
UpdateMax(m, window) == IF WindowMean(window) > m THEN WindowMean(window) ELSE m

\* lines 138-180: one batch of the epoch: the optimisation step and, when
\* global_step is a multiple of EvalPeriod, the evaluation on test_loader (the
\* caller passes val_loader); correct is what the evaluation counted
TrainStep(levels) ==
  /\ pc = "train_loop"
  /\ epoch < args.num_epochs
  /\ ix < LoaderLen(train_loader)
  /\ model' = [model EXCEPT !.updates = @ + 1]
  /\ optimizer' = [optimizer EXCEPT !.t = @ + 1]
  /\ global_step' = global_step + 1
  /\ ix' = ix + 1
  /\ IF ShouldEval(global_step + 1)
       THEN \E correct \in Choices(levels, val_loader.dataset.size) :
              /\ accuracies' = PushAcc(accuracies, correct)
              /\ max_running_mean' = UpdateMax(max_running_mean, accuracies')
              /\ train_writer' = [loss |-> train_writer.loss + 1,
                                  Accuracy |-> Append(train_writer.Accuracy,
                                                      global_step + 1)]
              /\ acc_hist' = Append(acc_hist, correct)
       ELSE /\ train_writer' = [train_writer EXCEPT !.loss = @ + 1]
            /\ UNCHANGED <<accuracies, max_running_mean, acc_hist>>
  /\ UNCHANGED <<pc, args, fs, error, alloc, train_dataset, val_dataset,
                 train_loader, val_loader, li, bi, hi, steps, total_steps,
                 max_perf, best_args, calls, first_at, epoch>>
  /\ UNCHANGED iterVars

\* lines 133, 190: the loader is exhausted, the next epoch starts
TrainEpochEnd ==
  /\ pc = "train_loop"
  /\ epoch < args.num_epochs
  /\ ix = LoaderLen(train_loader)
  /\ epoch' = epoch + 1
  /\ ix' = 0
  /\ UNCHANGED mainVars
  /\ UNCHANGED <<global_step, accuracies, max_running_mean, train_writer, acc_hist>>
  /\ UNCHANGED iterVars

\* ------------------------------------------------ __main__, after train
\* a plausible slip: >= lets a later run with an equal result replace the best
UpdateBestOnTie(mp, ba, p, cand) ==
  IF p >= mp THEN [max_perf |-> p, best_args |-> cand]
             ELSE [max_perf |-> mp, best_args |-> ba]

\* lines 251-253
UpdateBest(mp, ba, p, cand) ==
  IF p > mp THEN [max_perf |-> p, best_args |-> cand]
            ELSE [max_perf |-> mp, best_args |-> ba]

\* a plausible slip: the batch-size loop restarts the learning-rate position
NextPositionSkipping(l, b, h) ==
  IF h < Len(hidden_sizes) THEN <<l, b, h + 1>>
  ELSE IF b < Len(batch_sizes) THEN <<l, b + 1, 1>>
  ELSE <<l + 1, 1, 2>>

\* lines 227-229: the position the three nested for loops take next
NextPosition(l, b, h) ==
  IF h < Len(hidden_sizes) THEN <<l, b, h + 1>>
  ELSE IF b < Len(batch_sizes) THEN <<l, b + 1, 1>>
  ELSE <<l + 1, 1, 1>>

\* line 192 and lines 246-253: train returns max_running_mean, which the driver
\* binds to perf, counts and compares; then the for loops step
FinishRun ==
  /\ pc = "train_loop"
  /\ epoch = args.num_epochs
  /\ LET perf == max_running_mean
         r == UpdateBest(max_perf, best_args, perf,
                         <<lrs[li], batch_sizes[bi], hidden_sizes[hi]>>)
         nx == NextPosition(li, bi, hi)
     IN /\ max_perf' = r.max_perf
        /\ best_args' = r.best_args
        /\ li' = nx[1]
        /\ bi' = nx[2]
        /\ hi' = nx[3]
        /\ first_at' = IF perf <= 0 \/ \E e \in first_at : e[1] = perf
                         THEN first_at
                         ELSE first_at \cup {<<perf, steps + 1>>}
  /\ steps' = steps + 1
  /\ pc' = "loop"
  /\ UNCHANGED <<args, fs, error, alloc, train_dataset, val_dataset, train_loader,
                 val_loader, model, optimizer, total_steps, calls>>
  /\ UNCHANGED <<trainVars, iterVars>>

\* lines 255-256: the loops are exhausted
GridEnd ==
  /\ pc = "loop"
  /\ li > Len(lrs)
  /\ pc' = "done"
  /\ UNCHANGED <<args, fs, error, alloc, train_dataset, val_dataset, train_loader,
                 val_loader, model, optimizer, li, bi, hi, steps, total_steps,
                 max_perf, best_args, calls, first_at>>
  /\ UNCHANGED <<trainVars, iterVars>>

Next ==
  \/ LoadData
  \/ GridRun
  \/ TrainSetup
  \/ TrainStep(GridLevels)
  \/ TrainEpochEnd
  \/ FinishRun
  \/ GridEnd

Spec == Init /\ [][Next]_vars

\* the grid search under every pair of flags, with coarser accuracies
InitFlags ==
  /\ MainState("start", GridEpochs, FlagPairs)
  /\ IterIdle

NextFlags ==
  \/ LoadData
  \/ GridRun
  \/ TrainSetup
  \/ TrainStep(FlagLevels)
  \/ TrainEpochEnd
  \/ FinishRun
  \/ GridEnd

SpecFlags == InitFlags /\ [][NextFlags]_vars

\* one call of train, that of the first grid run, with more epochs, so that the
\* accuracy window fills and rolls
InitTrain ==
  /\ MainState("start", TrainEpochs, FlagPairs)
  /\ IterIdle

\* the first iteration of the loops only
FirstRun ==
  /\ steps = 0
  /\ GridRun

NextTrain ==
  \/ LoadData
  \/ FirstRun
  \/ TrainSetup
  \/ TrainStep(TrainLevels)
  \/ TrainEpochEnd
  \/ FinishRun

SpecTrain == InitTrain /\ [][NextTrain]_vars

\* ------------------------------------------------------- dataset_iterator
Min(a, b) == IF a < b THEN a ELSE b

\* the Python slice s[from:to] for 0 <= from and 0 <= to (0-based, to excluded,
\* clipped to the length of s)
Slice(s, from, to) == SubSeq(s, from + 1, Min(to, Len(s)))

\* the orders random.shuffle may leave a list in
Shuffles(s) ==
  {[i \in 1..Len(s) |-> s[p[i]]] :
     p \in {q \in [1..Len(s) -> 1..Len(s)] :
              \A i, j \in 1..Len(s) : q[i] = q[j] => i = j}}

\* yields that are explored; dataset_iterator itself has no such limit, and
\* with batch_size >= 1 it stops by itself before the limit is reached
MaxYields == MaxN + 2

\* a call dataset_iterator(dataset, batch_size, shuffle) on a list of distinct
\* examples, not yet advanced
InitIter ==
  /\ MainState("idle", GridEpochs, DefaultFlags)
  /\ args = ParsedArgs(FALSE, 1, 1, GridEpochs)
  /\ fs = [log_dir |-> "absent", checkpoint_dir |-> "absent", checkpoint_path |-> "absent"]
  /\ \E m \in 0..MaxN : dataset = [i \in 1..m |-> i]
  /\ batch_size \in 0..MaxBatch
  /\ shuffle \in BOOLEAN
  /\ count_sampled = 0
  /\ n = 0
  /\ it_pc = "called"
  /\ yielded = <<>>

\* lines 105-108: the first next() runs the generator up to its loop
IterStart ==
  /\ it_pc = "called"
  /\ IF shuffle THEN dataset' \in Shuffles(dataset) ELSE dataset' = dataset
  /\ count_sampled' = 0
  /\ n' = Len(dataset)
  /\ it_pc' = "loop"
  /\ UNCHANGED <<batch_size, shuffle, yielded>>
  /\ UNCHANGED <<mainVars, trainVars>>

\* a plausible slip: the slice stops one element early
NextBatchShort(s, c, b) == Slice(s, c, c + b - 1)

\* line 110: dataset[count_sampled:count_sampled + batch_size]
NextBatch(s, c, b) == Slice(s, c, c + b)

\* lines 109-111: one turn of the loop, yielding one batch
IterYield ==
  /\ it_pc = "loop"
  /\ count_sampled < n
  /\ Len(yielded) < MaxYields
  /\ yielded' = Append(yielded, NextBatch(dataset, count_sampled, batch_size))
  /\ count_sampled' = count_sampled + batch_size
  /\ UNCHANGED <<dataset, batch_size, shuffle, n, it_pc>>
  /\ UNCHANGED <<mainVars, trainVars>>

\* line 109: the loop condition fails and the generator is exhausted
IterStop ==
  /\ it_pc = "loop"
  /\ count_sampled >= n
  /\ it_pc' = "done"
  /\ UNCHANGED <<dataset, batch_size, shuffle, count_sampled, n, yielded>>
  /\ UNCHANGED <<mainVars, trainVars>>

NextIter ==
  \/ IterStart
  \/ IterYield
  \/ IterStop

\* the generator is advanced by the for loop that consumes it, which asks for
\* the next batch until the generator is exhausted
SpecIter == InitIter /\ [][NextIter]_vars /\ WF_vars(NextIter)

\* ================================================================= claims
InTrain == pc \in {"train_setup", "train_loop"}

\* the grid as the claims state it: learning rates in thousandths
ClaimedLrs == <<100, 10, 1>>
ClaimedBatchSizes == <<32, 64>>
ClaimedHiddenSizes == <<12, 24, 48, 64>>
ClaimedCombos ==
  {<<l, b, h>> : l \in {100, 10, 1}, b \in {32, 64}, h \in {12, 24, 48, 64}}

PosIn(seq, v) == CHOOSE i \in 1..Len(seq) : seq[i] = v

\* the place of a combination in nested order, learning rate outermost and
\* hidden size innermost
Rank(c) ==
  (PosIn(ClaimedLrs, c[1]) - 1) * (Len(ClaimedBatchSizes) * Len(ClaimedHiddenSizes))
  + (PosIn(ClaimedBatchSizes, c[2]) - 1) * Len(ClaimedHiddenSizes)
  + PosIn(ClaimedHiddenSizes, c[3])

\* C1: the i-th call of train is made with the i-th combination of the grid in
\* nested order (so no combination is repeated or skipped), steps counts the
\* calls that have returned, and when the loops end there have been 24 calls
\* and steps = total_steps = 24.
GridVisitsEachOnce ==
  /\ \A i \in 1..Len(calls) : calls[i] \in ClaimedCombos /\ Rank(calls[i]) = i
  /\ Len(calls) <= Cardinality(ClaimedCombos)
  /\ pc # "start" => steps = Len(calls) - (IF InTrain \/ pc = "crashed" THEN 1 ELSE 0)
  /\ pc = "done" =>
       /\ Len(calls) = 24
       /\ {calls[i] : i \in 1..Len(calls)} = ClaimedCombos
       /\ steps = total_steps
       /\ total_steps = 24

GridFinished == pc = "done" /\ steps = 24 /\ Len(calls) = 24

\* the values > 0 that the finished runs returned
Returned == {e[1] : e \in first_at}

SetMax(S) == CHOOSE v \in S : \A w \in S : w <= v

\* C2: max_perf is the largest value a finished run returned, or 0 when none
\* returned a value > 0; best_args is the combination of the earliest run that
\* returned that largest value, and the empty list when none returned a
\* value > 0.  It holds after every run, so also when the grid search ends.
BestIsEarliestMaximum ==
  pc \in {"loop", "done"} =>
    IF Returned = {}
      THEN max_perf = 0 /\ best_args = <<>>
      ELSE /\ max_perf = SetMax(Returned)
           /\ \E e \in first_at : e[1] = max_perf /\ best_args = calls[e[2]]

\* the search ended, a later run beat an earlier positive result, and a still
\* later run only equalled the best
LaterRunWon ==
  /\ pc = "done"
  /\ \E e1, e2 \in first_at : e1[1] < e2[1] /\ e1[2] < e2[2] /\ e2[2] < 24
  /\ best_args # <<>>

\* the last k entries of a sequence of at least k entries
LastK(seq, k) == SubSeq(seq, Len(seq) - k + 1, Len(seq))

\* the window after the first j evaluations, as the claim describes it
WindowAfter(j) == LastK(Zeros \o SubSeq(acc_hist, 1, j), 5)

\* C3 (state part): the window holds exactly the 5 most recent accuracies, on
\* top of five initial zeros; max_running_mean is the largest window mean
\* seen after any evaluation so far (0 before the first); as a mean it lies
\* between 0 and 1; the value train returns is that maximum.
RollingWindowInv ==
  /\ pc = "train_loop" =>
       /\ Len(accuracies) = 5
       /\ accuracies = WindowAfter(Len(acc_hist))
       /\ max_running_mean =
            SetMax({Sum(WindowAfter(j)) : j \in 0..Len(acc_hist)})
       /\ 0 <= max_running_mean
       /\ max_running_mean <= 5 * val_loader.dataset.size
  /\ (pc = "loop" /\ steps = 1) => max_perf = max_running_mean

\* C3: RollingWindowInv always holds and the tracked maximum never decreases
\* while train runs.
RollingAccuracy ==
  /\ []RollingWindowInv
  /\ [][(pc = "train_loop" /\ pc' = "train_loop")
          => max_running_mean' >= max_running_mean]_vars

\* after six evaluations a non-zero accuracy has left the window and the
\* current mean is below the tracked maximum
WindowRolled ==
  /\ pc = "train_loop"
  /\ Len(acc_hist) >= 6
  /\ acc_hist[1] > 0
  /\ Sum(accuracies) < max_running_mean

\* C4: evaluations happen every 10 training steps: the k-th evaluation of a
\* call of train is made at global_step 10 * k.
EvaluatedEveryTenSteps ==
  pc = "train_loop" =>
    /\ Len(train_writer.Accuracy) = global_step \div 10
    /\ \A k \in 1..Len(train_writer.Accuracy) : train_writer.Accuracy[k] = 10 * k

\* C5: train is never ended by makedirs finding a directory (or finding
\* nothing): the only FileExistsError is for a path occupied by a regular
\* file; and once the setup part has run, both directories exist.
DirectoriesSafe ==
  /\ error.exc # "none" => error.found = "file"
  /\ pc = "crashed" <=> error.exc # "none"
  /\ (pc = "train_loop" \/ (steps >= 1 /\ pc # "crashed")) =>
       fs.log_dir = "dir" /\ fs.checkpoint_dir = "dir"

\* the second run is past its setup: it found both directories in place
SecondRunSetUp == pc = "train_loop" /\ steps = 1 /\ global_step = 0

\* C7: in every grid run the model is trained on the validation split when
\* --debug is non-zero and on the train split otherwise; it is evaluated on
\* the very loader it is trained on when --test_on_train is non-zero and on
\* another loader, over the validation split, otherwise.
DataFollowsFlags ==
  InTrain =>
    /\ args.debug # 0 => train_loader.dataset.split = "val"
    /\ args.debug = 0 => train_loader.dataset.split = "train"
    /\ args.test_on_train # 0 => val_loader = train_loader
    /\ args.test_on_train = 0 =>
         /\ val_loader.id # train_loader.id
         /\ val_loader.dataset.split = "val"
    /\ (args.debug = 1 /\ args.test_on_train = 1) =>
         /\ train_loader.dataset.split = "val"
         /\ val_loader.dataset.split = "val"

\* a run with the default flags has evaluated the model
DefaultFlagsEvaluated ==
  /\ pc = "train_loop"
  /\ args.debug = 1
  /\ args.test_on_train = 1
  /\ Len(acc_hist) >= 1
  /\ steps >= 2

OtherArgs(a) ==
  <<a.dataset, a.num_epochs, a.num_lstm_layers, a.num_linear_layers, a.dropout,
    a.cap_len, a.exp_name, a.debug, a.test_on_train, a.verbose>>

\* C8 (state part): while train runs, lr, batch_size and hidden_size of args are
\* those of the grid position (never the command line's), the model, the
\* optimizer and the loaders are built from them, the model and the optimizer
\* have taken exactly global_step steps (so they are new at step 0), and the
\* window starts zeroed.
RunStartsFresh ==
  /\ InTrain =>
       /\ <<args.lr, args.batch_size, args.hidden_size>> \in ClaimedCombos
       /\ Rank(<<args.lr, args.batch_size, args.hidden_size>>) = steps + 1
       /\ model.h_size = args.hidden_size
       /\ optimizer.lr = args.lr
       /\ optimizer.params = model.id
       /\ train_loader.batch_size = args.batch_size
       /\ val_loader.batch_size = args.batch_size
  /\ pc = "train_loop" =>
       /\ model.updates = global_step
       /\ optimizer.t = global_step
       /\ global_step = epoch * LoaderLen(train_loader) + ix
       /\ Len(acc_hist) = global_step \div EvalPeriod
       /\ global_step = 0 => accuracies = Zeros /\ max_running_mean = 0

\* C8: RunStartsFresh always holds; no step changes another argument or, once
\* they are built, the datasets; and every grid run constructs a model and
\* an optimizer that did not exist before.
RunsShareOnlyArgs ==
  /\ []RunStartsFresh
  /\ [][/\ OtherArgs(args') = OtherArgs(args)
        /\ pc # "start" => (train_dataset' = train_dataset /\ val_dataset' = val_dataset)
        /\ (pc = "loop" /\ pc' = "train_setup") =>
             /\ model'.id > alloc
             /\ optimizer'.id > alloc
             /\ model'.id # optimizer'.id]_vars

\* a run starts although the run before it returned a positive value and the
\* command line had set the three arguments
FreshAfterTrainedRun ==
  /\ pc = "train_loop"
  /\ global_step = 0
  /\ steps >= 1
  /\ max_perf > 0

RECURSIVE Flatten(_)
Flatten(ss) == IF ss = <<>> THEN <<>> ELSE Head(ss) \o Flatten(Tail(ss))

CeilDiv(a, b) == (a + b - 1) \div b

\* C6 (state part): for batch_size >= 1 the batches yielded so far are
\* non-empty, at most batch_size long, all but the last exactly batch_size long,
\* and concatenated they are the first count_sampled elements of the
\* (shuffled) dataset; never more than ceil(n / batch_size) are yielded, and
\* the exploration limit is never what stops the generator; when it is
\* exhausted there are exactly ceil(n / batch_size) batches, which hold every
\* example once.  An empty dataset yields nothing, whatever batch_size is.
BatchesPartitionDataset ==
  /\ (batch_size >= 1 /\ it_pc \in {"loop", "done"}) =>
       /\ \A i \in 1..Len(yielded) :
            /\ yielded[i] # <<>>
            /\ Len(yielded[i]) <= batch_size
            /\ i < Len(yielded) => Len(yielded[i]) = batch_size
       /\ Flatten(yielded) = SubSeq(dataset, 1, Min(count_sampled, n))
       /\ count_sampled = batch_size * Len(yielded)
       /\ Len(yielded) <= CeilDiv(n, batch_size)
       /\ count_sampled < n => Len(yielded) < MaxYields
       /\ it_pc = "done" =>
            /\ Len(yielded) = CeilDiv(n, batch_size)
            /\ Flatten(yielded) = dataset
            /\ \A x \in 1..n :
                 Cardinality({i \in 1..Len(Flatten(yielded)) : Flatten(yielded)[i] = x}) = 1
  /\ (it_pc = "done" /\ n = 0) => yielded = <<>>

\* C6: BatchesPartitionDataset always holds, and for every batch_size >= 1 the
\* generator is eventually exhausted.
IteratorContract ==
  /\ []BatchesPartitionDataset
  /\ <>(batch_size < 1 \/ it_pc = "done")

\* a shuffled dataset was exhausted in several batches, the last one short
ShortLastBatch ==
  /\ it_pc = "done"
  /\ shuffle
  /\ dataset # [i \in 1..n |-> i]
  /\ Len(yielded) >= 2
  /\ Len(yielded[Len(yielded)]) < batch_size
====
